---- MODULE Spec2Model ----
(***************************************************************************)
(* A model of the two predictors of neural-network-from-scratch:           *)
(*   - NetworkLayer / MultiLayerPerceptron (forward pass, backpropagation, *)
(*     the training loop with its per-epoch callback);                     *)
(*   - KNNClassifier with the helpers of utils.js it uses (minMaxPoints,   *)
(*     normalizePoints, euclideanDistance, nearestPoints).                 *)
(*                                                                         *)
(* JavaScript numbers are modelled as exact rationals <<n, d>> (d > 0, in  *)
(* lowest terms) plus NaN == <<0, 0>>.  Every number the model reaches is  *)
(* a small dyadic rational or a small integer ratio, where IEEE doubles    *)
(* are exact for + - * and order-preserving for / .                        *)
(* JavaScript arrays are 0-based, TLA+ sequences 1-based: index i of the   *)
(* source is index i+1 here.                                               *)
(***************************************************************************)
EXTENDS Integers, Sequences, FiniteSets, TLC

(* ------------------------------------------------------------------ *)
(* Bounds of the model                                                 *)
(* ------------------------------------------------------------------ *)
MaxLayers == 3
MaxNeurons == 2
MaxSamples == 2
MaxEpochs == 2
MaxTrainCalls == 2

(* ------------------------------------------------------------------ *)
(* JavaScript numbers                                                  *)
(* ------------------------------------------------------------------ *)
NaN == <<0, 0>>

IsNaN(x) == x[2] = 0

Abs(n) == IF n < 0 THEN -n ELSE n

RECURSIVE Gcd(_, _)
Gcd(a, b) == IF b = 0 THEN a ELSE Gcd(b, a % b)

\* the number n/d; a zero divisor is only ever reached as 0/0, which is NaN
Num(n, d) ==
  IF d = 0 THEN NaN
  ELSE LET g == Gcd(Abs(n), Abs(d))
           s == IF d < 0 THEN -1 ELSE 1
       IN  <<(s * n) \div g, (s * d) \div g>>

Whole(n) == <<n, 1>>

\* sums and products are formed over the least common denominator and
\* after cancelling, so that no intermediate value is larger than needed
Add(x, y) ==
  IF IsNaN(x) \/ IsNaN(y) THEN NaN
  ELSE LET g == Gcd(x[2], y[2])
       IN  Num(x[1] * (y[2] \div g) + y[1] * (x[2] \div g), (x[2] \div g) * y[2])

Neg(x) == <<-x[1], x[2]>>

Sub(x, y) == Add(x, Neg(y))

Mul(x, y) ==
  IF IsNaN(x) \/ IsNaN(y) THEN NaN
  ELSE LET g == Gcd(Abs(x[1]), y[2])
           h == Gcd(Abs(y[1]), x[2])
       IN  Num((x[1] \div g) * (y[1] \div h), (x[2] \div h) * (y[2] \div g))

\* x / y; the model only divides by zero when x is zero too (0/0 is NaN)
Div(x, y) ==
  IF IsNaN(x) \/ IsNaN(y) \/ y[1] = 0 THEN NaN
  ELSE Mul(x, IF y[1] < 0 THEN <<-y[2], -y[1]>> ELSE <<y[2], y[1]>>)

\* x < y of JavaScript: false whenever an operand is NaN
Less(x, y) ==
  /\ ~IsNaN(x)
  /\ ~IsNaN(y)
  /\ x[1] * y[2] < y[1] * x[2]

\* v[j] of a JavaScript array used in arithmetic: a missing entry is
\* undefined, which arithmetic turns into NaN
At(v, j) == IF j \in DOMAIN v THEN v[j] ELSE NaN

RECURSIVE SumSeq(_)
SumSeq(s) == IF s = <<>> THEN Whole(0) ELSE Add(SumSeq(SubSeq(s, 1, Len(s) - 1)), s[Len(s)])

(* ------------------------------------------------------------------ *)
(* utils.js: activation and error functions                            *)
(* ------------------------------------------------------------------ *)
reLU(x) == IF Less(Whole(0), x) THEN x ELSE Whole(0)

mse(predictions, targets) ==
  Div(SumSeq([i \in 1..Len(predictions) |->
                LET diff == Sub(At(targets, i), predictions[i]) IN Mul(diff, diff)]),
      Whole(Len(predictions)))

\* const epsilon = 1e-7
epsilon == Num(1, 10000000)

\* crossEntropy(yTrue, yPred). Math.log is left uninterpreted: the value
\* returned is  -(sum of coef * Math.log(arg) over the terms) / length,  and
\* the model keeps the terms, two for each element of yTrue, and the length
crossEntropy(yTrue, yPred) ==
  [length |-> Len(yTrue),
   terms |-> [i \in 1..Len(yTrue) |->
                <<[coef |-> yTrue[i], arg |-> Add(At(yPred, i), epsilon)],
                  [coef |-> Sub(Whole(1), yTrue[i]),
                   arg |-> Add(Sub(Whole(1), At(yPred, i)), epsilon)]>>]]

(* ------------------------------------------------------------------ *)
(* NetworkLayer                                                        *)
(* ------------------------------------------------------------------ *)
\* the value Math.random() * 2 - 1 gives weight j (bias: j = 0) of neuron i,
\* a number of [-1, 1): the model draws 1/2 for the first neuron of a layer
\* and -1/2 for the others
Random(i, j) == IF i = 1 THEN Num(1, 2) ELSE Num(-1, 2)

\* new NetworkLayer(numNeurons, numInputs)
NetworkLayer(numNeurons, numInputs) ==
  [numNeurons  |-> numNeurons,
   numInputs   |-> numInputs,
   weights     |-> [i \in 1..numNeurons |->
                     [j \in 1..numInputs |-> Random(i, j)]],
   biases      |-> [i \in 1..numNeurons |-> Random(i, 0)],
   activations |-> <<>>,
   gradients   |-> <<>>]

\* ActivateOutputs with the accumulator of a neuron starting from the
\* activation the layer stored last instead of 0
ActivateOutputsStale(layer, inputs) ==
  [i \in 1..layer.numNeurons |->
     reLU(Add(Add(IF i \in DOMAIN layer.activations THEN layer.activations[i]
                  ELSE Whole(0),
                  SumSeq([j \in 1..layer.numInputs |->
                            Mul(layer.weights[i][j], At(inputs, j))])),
              layer.biases[i]))]

\* the outputs activate computes once the dimension check has passed
ActivateOutputs(layer, inputs) ==
  [i \in 1..layer.numNeurons |->
     reLU(Add(SumSeq([j \in 1..layer.numInputs |->
                        Mul(layer.weights[i][j], At(inputs, j))]),
              layer.biases[i]))]

\* ActivateThrows rejecting only the inputs that are too long
ActivateThrowsTooLong(layer, inputs) == Len(inputs) > layer.numInputs

\* whether activate throws "Input dimension mismatch"
ActivateThrows(layer, inputs) == Len(inputs) # layer.numInputs

\* the layer after activate returned
Activate(layer, inputs) ==
  [layer EXCEPT !.activations = ActivateOutputs(layer, inputs)]

(* ------------------------------------------------------------------ *)
(* MultiLayerPerceptron                                                *)
(* ------------------------------------------------------------------ *)
\* options.learningRate
learningRate == Whole(1)

\* #predict from layer i on: every layer activated in order until one
\* throws; the layers activated before the throw keep their new activations
RECURSIVE PredictFrom(_, _, _)
PredictFrom(ls, i, outputs) ==
  IF i > Len(ls) THEN [layers |-> ls, outputs |-> outputs, threw |-> FALSE]
  ELSE IF ActivateThrows(ls[i], outputs)
       THEN [layers |-> ls, outputs |-> outputs, threw |-> TRUE]
  ELSE PredictFrom([ls EXCEPT ![i] = Activate(ls[i], outputs)], i + 1,
                   ActivateOutputs(ls[i], outputs))

Predict(ls, inputs) == PredictFrom(ls, 1, inputs)

\* #computeError
ComputeError(predictions, targets) == mse(predictions, targets)

\* the error functions a caller can pass as options.errorFunction
ErrorFunctions == {"mse", "crossEntropy"}

\* this.#errorFunction(first, second): the call by position
ErrorFunction(errorFunction, first, second) ==
  IF errorFunction = "crossEntropy"
  THEN [fn |-> "crossEntropy", loss |-> crossEntropy(first, second)]
  ELSE [fn |-> "mse", loss |-> mse(first, second)]

\* #computeError of a network constructed with options.errorFunction
ComputeErrorWith(errorFunction, predictions, targets) ==
  ErrorFunction(errorFunction, predictions, targets)

\* the derivative backpropagate uses for every activation function
Derivative(activation) == Mul(activation, Sub(Whole(1), activation))

\* Gradients with the gradient of a hidden layer computed from the weights
\* the next layer had in the forward pass, before its update
GradientsForwardWeights(ls, i, targets, predictions) ==
  IF i = Len(ls)
  THEN [j \in 1..ls[i].numNeurons |->
          Mul(Sub(At(targets, j), At(predictions, j)),
              Derivative(At(ls[i].activations, j)))]
  ELSE IF i > 1
  THEN [j \in 1..ls[i].numNeurons |->
          Mul(SumSeq([k \in 1..ls[i + 1].numNeurons |->
                        Mul(Sub(At(ls[i + 1].weights[k], j),
                                Mul(Mul(learningRate, At(ls[i + 1].gradients, k)),
                                    At(ls[i].activations, j))),
                            At(ls[i + 1].gradients, k))]),
              Derivative(At(ls[i].activations, j)))]
  ELSE <<>>

\* the gradients backpropagate computes for layer i (source index i - 1)
Gradients(ls, i, targets, predictions) ==
  IF i = Len(ls)
  THEN [j \in 1..ls[i].numNeurons |->
          Mul(Sub(At(targets, j), At(predictions, j)),
              Derivative(At(ls[i].activations, j)))]
  ELSE IF i > 1
  THEN [j \in 1..ls[i].numNeurons |->
          Mul(SumSeq([k \in 1..ls[i + 1].numNeurons |->
                        Mul(At(ls[i + 1].weights[k], j), At(ls[i + 1].gradients, k))]),
              Derivative(At(ls[i].activations, j)))]
  ELSE <<>>

\* whether the loop body of backpropagate updates layer i (source: i > 0)
Updates(ls, i) == i > 1

\* UpdatedRow with the loop running to k <= prevLayer.numNeurons
UpdatedRowOneMore(row, gradient, prev) ==
  [k \in 1..(prev.numNeurons + 1) |->
     Add(At(row, k), Mul(Mul(learningRate, gradient), At(prev.activations, k)))]

\* row j of layer i after  weights[j][k] += learningRate * gradients[j] *
\* prevLayer.activations[k]  for every k < prevLayer.numNeurons; an index
\* past the end of the row would add an entry to it
UpdatedRow(row, gradient, prev) ==
  [k \in 1..(IF prev.numNeurons > Len(row) THEN prev.numNeurons ELSE Len(row)) |->
     IF k <= prev.numNeurons
     THEN Add(At(row, k), Mul(Mul(learningRate, gradient), At(prev.activations, k)))
     ELSE row[k]]

\* BackpropagateLayer storing the gradients of the layer outside the
\* if (i > 0) block
BackpropagateLayerStoring(ls, i, targets, predictions) ==
  LET gradients == Gradients(ls, i, targets, predictions)
      cur == ls[i]
  IN  IF Updates(ls, i)
      THEN [ls EXCEPT ![i] =
              [cur EXCEPT
                 !.weights = [j \in 1..cur.numNeurons |->
                                UpdatedRow(cur.weights[j], gradients[j], ls[i - 1])],
                 !.biases = [j \in 1..cur.numNeurons |->
                               Add(cur.biases[j], Mul(learningRate, gradients[j]))],
                 !.gradients = gradients]]
      ELSE [ls EXCEPT ![i] = [cur EXCEPT !.gradients = gradients]]

\* one iteration of the loop of backpropagate, for layer i
BackpropagateLayer(ls, i, targets, predictions) ==
  LET gradients == Gradients(ls, i, targets, predictions)
      cur == ls[i]
  IN  IF Updates(ls, i)
      THEN [ls EXCEPT ![i] =
              [cur EXCEPT
                 !.weights = [j \in 1..cur.numNeurons |->
                                UpdatedRow(cur.weights[j], gradients[j], ls[i - 1])],
                 !.biases = [j \in 1..cur.numNeurons |->
                               Add(cur.biases[j], Mul(learningRate, gradients[j]))],
                 !.gradients = gradients]]
      ELSE ls

\* #backpropagate: the layers from the last (i = Len(ls)) down to the first
RECURSIVE BackpropagateFrom(_, _, _, _)
BackpropagateFrom(ls, i, targets, predictions) ==
  IF i < 1 THEN ls
  ELSE BackpropagateFrom(BackpropagateLayer(ls, i, targets, predictions), i - 1,
                         targets, predictions)

Backpropagate(ls, targets, predictions) ==
  BackpropagateFrom(ls, Len(ls), targets, predictions)

(* ------------------------------------------------------------------ *)
(* The network and one caller of train                                 *)
(* ------------------------------------------------------------------ *)
VARIABLES
  layers,        \* #layers
  trainingData,  \* the samples the caller passes to train
  epochs,        \* the epochs the caller passes to train
  callback,      \* TRUE when the caller passes a callback
  pc,            \* where train stands: "idle", "predict", "backpropagate",
                 \* "callback", "returned", "threw"
  iteration,     \* train: iteration
  sample,        \* train: i, the index of the current sample (1-based)
  totalError,    \* train: totalError
  predictions,   \* train: predictions of the current sample
  calls,         \* how many times train was called
  cbLog,         \* history: the arguments and result of every call of cb
                 \* made by the current train call
  passes,        \* history: backward passes completed by the current call
  layers0,       \* history: the layers as the constructor left them
  before,        \* history: the layers when the current sample began
  fwdLog,        \* history: the forward passes completed so far
                 \* (parameters, inputs, outputs)
  repeated       \* history: the last forward pass ran with parameters and
                 \* inputs an earlier one had

mlpVars == <<layers, trainingData, epochs, callback, pc, iteration, sample,
             totalError, predictions, calls, cbLog, passes, layers0, before,
             fwdLog, repeated>>

(* the predictor of KNNClassifier.js and one caller of nearestPoints; their
   actions are defined further down *)
VARIABLES
  knnK,          \* #k
  distanceMetric, normalization, regression,  \* the other private fields
  trainingFeatures, trainingLabels,
  lastCall,      \* history: the last call made, its arguments and what it
                 \* returned, or that it threw
  npArgs,        \* the arguments of a call of nearestPoints
  npResult       \* <<>> before the call, then << what it returned >>

knnVars == <<knnK, distanceMetric, normalization, regression, trainingFeatures,
             trainingLabels, lastCall>>

npVars == <<npArgs, npResult>>

(* one caller of #computeError *)
VARIABLES
  lossArgs,      \* the configured error function and the arguments of a
                 \* call of #computeError
  lossResult     \* <<>> before the call, then << what it returned >>

lossVars == <<lossArgs, lossResult>>

vars == <<mlpVars, knnVars, npVars, lossVars>>

\* the value of the predictor's and of nearestPoints' variables in the
\* behaviours of the network, which never touch them
KNNUnused ==
  /\ knnK = 1
  /\ distanceMetric = "undefined"
  /\ normalization = FALSE
  /\ regression = FALSE
  /\ trainingFeatures = <<>>
  /\ trainingLabels = <<>>
  /\ lastCall = [op |-> "none"]

\* no network is constructed
MLPUnused ==
  /\ layers = <<>>
  /\ trainingData = <<>>
  /\ epochs = 0
  /\ callback = FALSE
  /\ pc = "idle"
  /\ iteration = 0
  /\ sample = 0
  /\ totalError = Whole(0)
  /\ predictions = <<>>
  /\ calls = 0
  /\ cbLog = <<>>
  /\ passes = 0
  /\ layers0 = <<>>
  /\ before = <<>>
  /\ fwdLog = {}
  /\ repeated = FALSE

LossUnused ==
  /\ lossArgs = <<>>
  /\ lossResult = <<>>

NPUnused ==
  /\ npArgs = <<>>
  /\ npResult = <<>>

\* layerSizes of a network of L layers: width n up to the last layer, o
\* neurons in the last one; layer bad (if any) declares one input too many
LayerSizes(L, n, o, bad) ==
  [l \in 1..L |-> <<IF l = L THEN o ELSE n, IF l = bad THEN n + 1 ELSE n>>]

\* constructor
Constructor(layerSizes) ==
  [l \in 1..Len(layerSizes) |-> NetworkLayer(layerSizes[l][1], layerSizes[l][2])]

\* sample k of a training set for a network of input width n: odd samples
\* are <<9 - 2(n-1), 2, .., 2>>, even ones <<3, 0, .., 0>>, every target is 4;
\* sample badAt (if any) has one input too many
Sample(k, n, badAt) ==
  [inputs  |-> [j \in 1..(IF k = badAt THEN n + 1 ELSE n) |->
                  IF k % 2 = 1
                  THEN (IF j = 1 THEN Whole(9 - 2 * (n - 1)) ELSE Whole(2))
                  ELSE (IF j = 1 THEN Whole(3) ELSE Whole(0))],
   targets |-> [j \in 1..n |-> Whole(4)]]

TrainingData(len, n, badAt) == [k \in 1..len |-> Sample(k, n, badAt)]

\* the parameters (weights and biases) of every layer
Parameters(ls) == [l \in 1..Len(ls) |-> <<ls[l].weights, ls[l].biases>>]

MLPInit ==
  /\ \E L \in 1..MaxLayers, n \in 1..MaxNeurons, o \in 1..MaxNeurons :
       \E bad \in {0} \cup 2..L :
         /\ layers = Constructor(LayerSizes(L, n, o, bad))
         /\ \E len \in 0..MaxSamples : \E badAt \in 0..len :
              trainingData = TrainingData(len, n, badAt)
  /\ epochs \in 0..MaxEpochs
  /\ callback \in BOOLEAN
  /\ pc = "idle"
  /\ iteration = 0
  /\ sample = 0
  /\ totalError = Whole(0)
  /\ predictions = <<>>
  /\ calls = 0
  /\ cbLog = <<>>
  /\ passes = 0
  /\ layers0 = layers
  /\ before = layers
  /\ fwdLog = {}
  /\ repeated = FALSE
  /\ KNNUnused
  /\ NPUnused
  /\ LossUnused

\* EpochHead with the loop test iteration < epochs
EpochHeadOneLess(it) ==
  IF it >= epochs THEN "returned"
  ELSE IF Len(trainingData) = 0 THEN "callback"
  ELSE "predict"

\* EpochHead with the loop testing iteration - 1 <= epochs
EpochHeadOneMore(it) ==
  IF it - 1 > epochs THEN "returned"
  ELSE IF Len(trainingData) = 0 THEN "callback"
  ELSE "predict"

\* where train goes when the epoch loop tests iteration <= epochs with
\* iteration = it: into the sample loop, past an empty one, or out
EpochHead(it) ==
  IF it > epochs THEN "returned"
  ELSE IF Len(trainingData) = 0 THEN "callback"
  ELSE "predict"

\* train(trainingData, epochs, callback) is called
Train ==
  /\ pc \in {"idle", "returned", "threw"}
  /\ calls < MaxTrainCalls
  /\ calls' = calls + 1
  /\ iteration' = 1
  /\ totalError' = Whole(0)
  /\ sample' = 1
  /\ pc' = EpochHead(1)
  /\ cbLog' = <<>>
  /\ passes' = 0
  /\ before' = layers
  /\ predictions' = <<>>
  /\ UNCHANGED <<layers, trainingData, epochs, callback, layers0, fwdLog, repeated>>
  /\ UNCHANGED <<knnVars, npVars, lossVars>>

\* const predictions = this.#predict(inputs)
PredictStep ==
  /\ pc = "predict"
  /\ LET r == Predict(layers, trainingData[sample].inputs)
     IN  /\ layers' = r.layers
         /\ before' = layers
         /\ IF r.threw
            THEN /\ pc' = "threw"
                 /\ UNCHANGED <<predictions, fwdLog, repeated>>
            ELSE /\ pc' = "backpropagate"
                 /\ predictions' = r.outputs
                 /\ fwdLog' = fwdLog \cup
                      {[parameters |-> Parameters(layers),
                        inputs |-> trainingData[sample].inputs,
                        outputs |-> r.outputs]}
                 /\ repeated' = \E f \in fwdLog :
                                   /\ f.parameters = Parameters(layers)
                                   /\ f.inputs = trainingData[sample].inputs
  /\ UNCHANGED <<trainingData, epochs, callback, iteration, sample, totalError,
                 calls, cbLog, passes, layers0>>
  /\ UNCHANGED <<knnVars, npVars, lossVars>>

\* the error of the sample is added to totalError and the sample is
\* backpropagated; then the sample loop goes on
BackpropagateStep ==
  /\ pc = "backpropagate"
  /\ totalError' = Add(totalError, ComputeError(predictions, trainingData[sample].targets))
  /\ layers' = Backpropagate(layers, trainingData[sample].targets, predictions)
  /\ passes' = passes + 1
  /\ sample' = sample + 1
  /\ pc' = IF sample + 1 <= Len(trainingData) THEN "predict" ELSE "callback"
  /\ UNCHANGED <<trainingData, epochs, callback, iteration, predictions, calls,
                 cbLog, layers0, before, fwdLog, repeated>>
  /\ UNCHANGED <<knnVars, npVars, lossVars>>

\* the results cb(iteration, averageError) can have: the default callback
\* () => {} returns undefined, the caller's returns anything
CallbackResults == IF callback THEN BOOLEAN ELSE {FALSE}

\* the callback is invoked and train breaks or starts the next epoch
CallbackStep ==
  /\ pc = "callback"
  /\ \E shouldStop \in CallbackResults :
       /\ cbLog' = Append(cbLog,
                          [iteration |-> iteration,
                           averageError |-> Div(totalError, Whole(Len(trainingData))),
                           passes |-> passes,
                           returned |-> shouldStop])
       /\ IF shouldStop
          THEN /\ pc' = "returned"
               /\ UNCHANGED <<iteration, totalError, sample>>
          ELSE /\ pc' = EpochHead(iteration + 1)
               /\ iteration' = iteration + 1
               /\ totalError' = Whole(0)
               /\ sample' = 1
  /\ UNCHANGED <<layers, trainingData, epochs, callback, predictions, calls,
                 passes, layers0, before, fwdLog, repeated>>
  /\ UNCHANGED <<knnVars, npVars, lossVars>>

MLPNext == Train \/ PredictStep \/ BackpropagateStep \/ CallbackStep

Spec == MLPInit /\ [][MLPNext]_vars

(* ------------------------------------------------------------------ *)
(* utils.js: the helpers of the predictor                              *)
(* ------------------------------------------------------------------ *)
MaxPoints == 3
MaxK == 3

\* Math.abs, for the distance a caller may supply
AbsNum(x) == IF Less(x, Whole(0)) THEN Neg(x) ELSE x

\* Math.min(...values) and Math.max(...values): NaN as soon as one value is
RECURSIVE MathMin(_)
MathMin(values) ==
  IF Len(values) = 1 THEN values[1]
  ELSE LET rest == MathMin(SubSeq(values, 2, Len(values)))
       IN  IF IsNaN(values[1]) \/ IsNaN(rest) THEN NaN
           ELSE IF Less(rest, values[1]) THEN rest ELSE values[1]

RECURSIVE MathMax(_)
MathMax(values) ==
  IF Len(values) = 1 THEN values[1]
  ELSE LET rest == MathMax(SubSeq(values, 2, Len(values)))
       IN  IF IsNaN(values[1]) \/ IsNaN(rest) THEN NaN
           ELSE IF Less(values[1], rest) THEN rest ELSE values[1]

\* euclideanDistance(a, b), squared: the model keeps the sum of the squared
\* differences over the keys of a, of which Math.sqrt is a strictly
\* increasing function (and NaN for NaN)
euclideanDistance(a, b) ==
  SumSeq([key \in 1..Len(a) |->
            LET diff == Sub(a[key], At(b, key)) IN Mul(diff, diff)])

\* a distance function a caller passes to withDistanceMetric
manhattanDistance(a, b) ==
  SumSeq([key \in 1..Len(a) |-> AbsNum(Sub(a[key], At(b, key)))])

inverseLerp(from, to, value) == Div(Sub(value, from), Sub(to, from))

\* whether minMaxPoints throws: points[0].length of an empty list
MinMaxThrows(points) == Len(points) = 0

minMaxPoints(points) ==
  [f \in 1..Len(points[1]) |->
     <<MathMin([p \in 1..Len(points) |-> At(points[p], f)]),
       MathMax([p \in 1..Len(points) |-> At(points[p], f)])>>]

\* normalizePoints(data) with no minMax given; it throws when minMaxPoints does
normalizePoints(data) ==
  LET minMax == minMaxPoints(data)
  IN  [p \in 1..Len(data) |->
         [f \in 1..Len(data[p]) |->
            inverseLerp(minMax[f][1], minMax[f][2], data[p][f])]]

\* the distance function nearestPoints applies
Distance(metric, a, b) ==
  IF metric = "manhattanDistance" THEN manhattanDistance(a, b)
  ELSE euclideanDistance(a, b)

\* the entries nearestPoints maps the points to; index is the source's
\* 0-based index
Entries(point, points, metric) ==
  [p \in 1..Len(points) |->
     [index |-> p - 1, point |-> points[p],
      distance |-> Distance(metric, point, points[p])]]

\* CompareSwapped: the comparator written b.distance - a.distance
CompareSwapped(a, b) ==
  IF Less(b.distance, a.distance) THEN -1
  ELSE IF Less(a.distance, b.distance) THEN 1
  ELSE 0

\* the sign of the comparator (a, b) => a.distance - b.distance; a NaN
\* result counts as 0 in Array.prototype.sort
Compare(a, b) ==
  IF Less(a.distance, b.distance) THEN -1
  ELSE IF Less(b.distance, a.distance) THEN 1
  ELSE 0

\* whether the comparator is a consistent comparison function for the
\* entries: elements that compare 0 with a common element compare 0
ConsistentComparator(es) ==
  \A a \in 1..Len(es) : \A b \in 1..Len(es) : \A c \in 1..Len(es) :
    (Compare(es[a], es[b]) = 0 /\ Compare(es[b], es[c]) = 0)
      => Compare(es[a], es[c]) = 0

\* a sorted sequence with e inserted after every element that does not
\* compare greater than e
Insert(sorted, e) ==
  LET after == {p \in 1..Len(sorted) : Compare(sorted[p], e) > 0}
      at == IF after = {} THEN Len(sorted) + 1
            ELSE CHOOSE p \in after : \A q \in after : p <= q
  IN  SubSeq(sorted, 1, at - 1) \o <<e>> \o SubSeq(sorted, at, Len(sorted))

\* the stable sort of es by the comparator
RECURSIVE StableSort(_)
StableSort(es) ==
  IF es = <<>> THEN <<>>
  ELSE Insert(StableSort(SubSeq(es, 1, Len(es) - 1)), es[Len(es)])

\* the orders Array.prototype.sort may leave the entries in: the stable
\* sort when the comparator is consistent, any order when it is not
\* (implementation-defined)
Sorted(es) ==
  IF ConsistentComparator(es) THEN {StableSort(es)}
  ELSE {[p \in 1..Len(es) |-> es[f[p]]] :
          f \in {g \in [1..Len(es) -> 1..Len(es)] :
                   \A x \in 1..Len(es) : \A y \in 1..Len(es) : g[x] = g[y] => x = y}}

\* slice(0, n)
Slice(s, n) == SubSeq(s, 1, IF n < Len(s) THEN n ELSE Len(s))

\* the results nearestPoints(point, points, k, distanceMetric) can have
nearestPoints(point, points, kk, metric) ==
  {Slice(s, kk) : s \in Sorted(Entries(point, points, metric))}

(* ------------------------------------------------------------------ *)
(* KNNClassifier                                                       *)
(* ------------------------------------------------------------------ *)
\* String(n) for the numbers used as labels
DigitText == <<"1", "2">>

\* a label that is a number, a string or undefined; n is the array index
\* its property key is (-1: the key is no array index), text is String(label)
NumberLabel(n) == [type |-> "number", n |-> n, text |-> DigitText[n]]

StringLabel(t) ==
  [type |-> "string",
   n |-> IF \E d \in DOMAIN DigitText : DigitText[d] = t
         THEN CHOOSE d \in DOMAIN DigitText : DigitText[d] = t
         ELSE -1,
   text |-> t]

Undefined == [type |-> "undefined", n |-> -1, text |-> "undefined"]

\* labels[i] of the source, i 0-based: undefined past the end
LabelAt(labels, p) == IF p \in DOMAIN labels THEN labels[p] ELSE Undefined

\* #findNearestNeighbors: the neighbours with their labels
WithLabels(neighbors, labels) ==
  [p \in 1..Len(neighbors) |->
     [index |-> neighbors[p].index, point |-> neighbors[p].point,
      distance |-> neighbors[p].distance,
      label |-> LabelAt(labels, neighbors[p].index + 1)]]

\* the tally object after  carry[label] = (carry[label] || 0) + 1 : its
\* properties in the order for-in visits them, array-index keys first in
\* ascending numeric order, then the other keys in the order they were created
AddVote(votes, label) ==
  IF \E p \in 1..Len(votes) : votes[p].text = label.text
  THEN [p \in 1..Len(votes) |->
          IF votes[p].text = label.text
          THEN [votes[p] EXCEPT !.count = votes[p].count + 1]
          ELSE votes[p]]
  ELSE LET later == IF label.n < 0 THEN {}
                    ELSE {p \in 1..Len(votes) : votes[p].n < 0 \/ votes[p].n > label.n}
           at == IF later = {} THEN Len(votes) + 1
                 ELSE CHOOSE p \in later : \A q \in later : p <= q
       IN  SubSeq(votes, 1, at - 1)
             \o <<[text |-> label.text, n |-> label.n, count |-> 1]>>
             \o SubSeq(votes, at, Len(votes))

\* #getVotes
RECURSIVE GetVotes(_)
GetVotes(neighbors) ==
  IF neighbors = <<>> THEN <<>>
  ELSE AddVote(GetVotes(SubSeq(neighbors, 1, Len(neighbors) - 1)),
               neighbors[Len(neighbors)].label)

\* Later with the test votes[label] >= maxVotes
LaterOrEqual(count, maxVotes) == count >= maxVotes

\* the test of the loop of predict: votes[label] > maxVotes
Later(count, maxVotes) == count > maxVotes

\* the loop of predict over the tally, from property p on
RECURSIVE MajorityFrom(_, _, _)
MajorityFrom(votes, p, best) ==
  IF p > Len(votes) THEN best
  ELSE MajorityFrom(votes, p + 1,
                    IF Later(votes[p].count, best.maxVotes)
                    THEN [predictedLabel |-> StringLabel(votes[p].text),
                          maxVotes |-> votes[p].count]
                    ELSE best)

Majority(votes) == MajorityFrom(votes, 1, [predictedLabel |-> Undefined, maxVotes |-> 0])

\* sum + neighbor.label of #getAvgValues: a number while only numbers were
\* added, a string (str) from the first string label on; val is the number,
\* or the number the string converts to (the labels of the model are
\* single digits or no numerals at all)
PlusLabel(sum, label) ==
  IF sum.str \/ label.type = "string"
  THEN [str |-> TRUE,
        val |-> IF label.n < 0 \/ IsNaN(sum.val) THEN NaN
                ELSE Add(Mul(sum.val, Whole(10)), Whole(label.n))]
  ELSE [str |-> FALSE,
        val |-> IF label.type = "undefined" THEN NaN ELSE Add(sum.val, Whole(label.n))]

RECURSIVE SumLabels(_)
SumLabels(neighbors) ==
  IF neighbors = <<>> THEN [str |-> FALSE, val |-> Whole(0)]
  ELSE PlusLabel(SumLabels(SubSeq(neighbors, 1, Len(neighbors) - 1)),
                 neighbors[Len(neighbors)].label)

\* #getAvgValues
GetAvgValues(neighbors) == Div(SumLabels(neighbors).val, Whole(Len(neighbors)))

\* the list predict normalizes: the query first, with one of the stored lists
PredictPointsStoredOnly(feature, stored) == stored

\* the list predict normalizes: [feature, ...this.#trainingFeatures]
PredictPoints(feature, stored) == <<feature>> \o stored

\* the labels train stores, one per stored feature, when it loops over the
\* labels instead
StoredLabelsPerLabel(features, labels) == labels

\* the labels train stores: labels[i] for every i < _features.length
StoredLabels(features, labels) == [p \in 1..Len(features) |-> LabelAt(labels, p)]

\* the list train normalizes when it merges the stored points in
TrainPointsMerged(features, stored) == stored \o features

\* the list train normalizes: the batch alone
TrainPoints(features, stored) == features

\* the points, labels and queries the callers of the model use
P1 == <<Whole(0), Whole(0)>>
P2 == <<Whole(2), Whole(0)>>
P3 == <<Whole(2), Whole(4)>>

Batches ==
  { [features |-> <<>>, labels |-> <<NumberLabel(1)>>],
    [features |-> <<P1, P2>>, labels |-> <<NumberLabel(2), StringLabel("1")>>],
    [features |-> <<P3>>, labels |-> <<StringLabel("b")>>],
    [features |-> <<P2, P3>>, labels |-> <<StringLabel("a")>>] }

Queries == {P1, <<Whole(1), Whole(0)>>, <<Whole(3), Whole(4)>>}

Metrics == {"undefined", "manhattanDistance"}

KNNInit ==
  /\ knnK \in 1..MaxK
  /\ distanceMetric = "undefined"
  /\ regression = FALSE
  /\ trainingFeatures = <<>>
  /\ trainingLabels = <<>>
  /\ normalization = FALSE
  /\ lastCall = [op |-> "constructor"]
  /\ NPUnused
  /\ MLPUnused
  /\ LossUnused

\* train(features, labels)
KTrain(features, labels) ==
  /\ Len(trainingFeatures) + Len(features) <= MaxPoints
  /\ IF normalization /\ MinMaxThrows(TrainPoints(features, trainingFeatures))
     THEN /\ lastCall' = [op |-> "train", features |-> features, labels |-> labels,
                          threw |-> TRUE]
          /\ UNCHANGED <<trainingFeatures, trainingLabels>>
     ELSE LET all == IF normalization
                     THEN normalizePoints(TrainPoints(features, trainingFeatures))
                     ELSE features
              _features == SubSeq(all, Len(all) - Len(features) + 1, Len(all))
          IN  /\ trainingFeatures' = trainingFeatures \o _features
              /\ trainingLabels' = trainingLabels \o StoredLabels(_features, labels)
              /\ lastCall' = [op |-> "train", features |-> features,
                              labels |-> labels, threw |-> FALSE]
  /\ UNCHANGED <<knnK, distanceMetric, normalization, regression>>
  /\ UNCHANGED <<mlpVars, npVars, lossVars>>

KNNTrain == \E b \in Batches : KTrain(b.features, b.labels)

\* predict(feature)
KPredict(feature) ==
  /\ IF normalization /\ MinMaxThrows(PredictPoints(feature, trainingFeatures))
     THEN lastCall' = [op |-> "predict", feature |-> feature, threw |-> TRUE]
     ELSE LET point == IF normalization
                       THEN normalizePoints(PredictPoints(feature, trainingFeatures))[1]
                       ELSE feature
          IN  \E found \in nearestPoints(point, trainingFeatures, knnK, distanceMetric) :
                LET neighbors == WithLabels(found, trainingLabels)
                IN  lastCall' =
                      [op |-> "predict", feature |-> feature, threw |-> FALSE,
                       point |-> point, neighbors |-> neighbors,
                       returned |-> IF regression
                                    THEN [average |-> GetAvgValues(neighbors)]
                                    ELSE Majority(GetVotes(neighbors))]
  /\ UNCHANGED <<knnK, distanceMetric, normalization, regression,
                 trainingFeatures, trainingLabels>>
  /\ UNCHANGED <<mlpVars, npVars, lossVars>>

KNNPredict == \E feature \in Queries : KPredict(feature)

WithDistanceMetric ==
  \E m \in Metrics :
    /\ distanceMetric' = m
    /\ lastCall' = [op |-> "withDistanceMetric"]
    /\ UNCHANGED <<knnK, normalization, regression, trainingFeatures, trainingLabels>>
    /\ UNCHANGED <<mlpVars, npVars, lossVars>>

WithNormalization ==
  \E b \in BOOLEAN :
    /\ normalization' = b
    /\ lastCall' = [op |-> "withNormalization"]
    /\ UNCHANGED <<knnK, distanceMetric, regression, trainingFeatures, trainingLabels>>
    /\ UNCHANGED <<mlpVars, npVars, lossVars>>

WithRegression ==
  \E b \in BOOLEAN :
    /\ regression' = b
    /\ lastCall' = [op |-> "withRegression"]
    /\ UNCHANGED <<knnK, distanceMetric, normalization, trainingFeatures, trainingLabels>>
    /\ UNCHANGED <<mlpVars, npVars, lossVars>>

KNNNext ==
  \/ KNNTrain
  \/ KNNPredict
  \/ WithDistanceMetric
  \/ WithNormalization
  \/ WithRegression

KNNSpec == KNNInit /\ [][KNNNext]_vars

(* ------------------------------------------------------------------ *)
(* A caller of nearestPoints                                           *)
(* ------------------------------------------------------------------ *)
\* a point as normalizePoints leaves it when a batch has one value a column
PNaN == <<NaN, NaN>>

Points == {P1, P2, P3, PNaN}

\* the lists of at most n points
PointLists(n) == UNION {[1..len -> Points] : len \in 0..n}

NearestInit ==
  /\ npArgs \in [point : Queries, points : PointLists(MaxPoints), k : 1..MaxK,
                 distanceMetric : Metrics]
  /\ npResult = <<>>
  /\ KNNUnused
  /\ MLPUnused
  /\ LossUnused

NearestCall ==
  /\ npResult = <<>>
  /\ \E r \in nearestPoints(npArgs.point, npArgs.points, npArgs.k, npArgs.distanceMetric) :
       npResult' = <<r>>
  /\ UNCHANGED <<npArgs, mlpVars, knnVars, lossVars>>

NearestNext == NearestCall

NearestSpec == NearestInit /\ [][NearestNext]_vars

(* ------------------------------------------------------------------ *)
(* A caller of #computeError                                           *)
(* ------------------------------------------------------------------ *)
\* the values an output neuron and a target take
Outputs == {Whole(0), Num(1, 2), Whole(1)}

Targets == {Whole(0), Whole(1)}

\* the vectors of 1 to n values of S
Vectors(S, n) == UNION {[1..len -> S] : len \in 1..n}

LossInit ==
  /\ lossArgs \in [errorFunction : ErrorFunctions,
                   predictions : Vectors(Outputs, MaxNeurons),
                   targets : Vectors(Targets, MaxNeurons)]
  /\ lossResult = <<>>
  /\ KNNUnused
  /\ MLPUnused
  /\ NPUnused

ComputeErrorCall ==
  /\ lossResult = <<>>
  /\ lossResult' = <<ComputeErrorWith(lossArgs.errorFunction, lossArgs.predictions,
                                      lossArgs.targets)>>
  /\ UNCHANGED <<lossArgs, mlpVars, knnVars, npVars>>

LossNext == ComputeErrorCall

LossSpec == LossInit /\ [][LossNext]_vars

(* ------------------------------------------------------------------ *)
(* Claims about the network                                            *)
(* ------------------------------------------------------------------ *)
\* the callback of the current train call has returned a truthy value
Stopped == Len(cbLog) > 0 /\ cbLog[Len(cbLog)].returned

C1_Inv ==
  /\ \A m \in 1..Len(cbLog) :
       /\ cbLog[m].iteration = m
       /\ cbLog[m].passes = m * Len(trainingData)
       /\ m < Len(cbLog) => ~cbLog[m].returned
  /\ pc \in {"predict", "backpropagate", "callback"} =>
       /\ Len(cbLog) = iteration - 1
       /\ iteration <= epochs
  /\ Stopped => pc = "returned" /\ callback
  /\ (pc = "returned" /\ ~Stopped) =>
       /\ Len(cbLog) = epochs
       /\ passes = epochs * Len(trainingData)

C1_Step ==
  Stopped => \/ calls' = calls + 1
             \/ layers' = layers /\ passes' = passes /\ cbLog' = cbLog

\* C1: the callback is invoked exactly once per completed epoch, after all
\* the backward passes of that epoch, with the epoch numbers 1, 2, ...; once
\* an invocation returns a truthy value the train call processes no further
\* sample, changes no layer and never invokes the callback again; with no
\* callback, or one that always returns a falsy value, a train call that
\* returns has run exactly `epochs` epochs.
C1_CallbackOncePerEpoch == []C1_Inv /\ [][C1_Step]_vars

\* a callback has stopped the training early, after an epoch with samples
C1_Witness == Stopped /\ Len(cbLog) < epochs /\ passes > 0

\* some layer of ls declares an input count that is not the length of the
\* vector a forward pass of inputs hands it
Mismatch(ls, inputs) ==
  \E l \in 1..Len(ls) :
    ls[l].numInputs # (IF l = 1 THEN Len(inputs) ELSE ls[l - 1].numNeurons)

AllGradients(ls) == [l \in 1..Len(ls) |-> ls[l].gradients]

C2_Inv ==
  /\ pc = "threw" =>
       /\ Mismatch(layers, trainingData[sample].inputs)
       /\ Parameters(layers) = Parameters(before)
       /\ AllGradients(layers) = AllGradients(before)
       /\ passes = (iteration - 1) * Len(trainingData) + sample - 1
       /\ Len(cbLog) = iteration - 1
  /\ pc = "backpropagate" => ~Mismatch(layers, trainingData[sample].inputs)

C2_Step ==
  pc = "threw" => \/ calls' = calls + 1
                  \/ UNCHANGED <<layers, passes, cbLog, sample, iteration>>

\* C2: a forward call on an input vector of the wrong length aborts train:
\* the failing sample is not skipped, its backward pass never runs and it
\* changes no weight, bias or gradient, the callback is not invoked for the
\* current epoch and the call processes no later sample or epoch.
C2_MismatchAbortsTraining == []C2_Inv /\ [][C2_Step]_vars

\* train threw on a later sample, after earlier samples had changed weights
C2_Witness ==
  pc = "threw" /\ passes > 0 /\ Parameters(layers) # Parameters(layers0)

\* C3: the first layer is never updated: its weights and biases are the ones
\* the constructor set and its gradient vector is still empty, whatever the
\* number of layers and of train calls.
C3_FirstLayerNeverUpdated ==
  /\ layers[1].weights = layers0[1].weights
  /\ layers[1].biases = layers0[1].biases
  /\ layers[1].gradients = <<>>

\* a second train call has run backward passes that changed a later layer
C3_Witness ==
  /\ calls > 1
  /\ passes > 0
  /\ Len(layers) > 1
  /\ Parameters(layers) # Parameters(layers0)

C9_Inv ==
  \A f1 \in fwdLog : \A f2 \in fwdLog :
    (f1.parameters = f2.parameters /\ f1.inputs = f2.inputs)
      => f1.outputs = f2.outputs

C9_Step ==
  pc = "predict" =>
    /\ Len(layers') = Len(layers)
    /\ \A l \in 1..Len(layers) :
         [layers'[l] EXCEPT !.activations = layers[l].activations] = layers[l]

\* C9: the forward pass is a function of the parameters and the input: two
\* passes with the same weights, biases and input give the same outputs, and
\* a pass writes nothing but the activation vectors of the layers.
C9_ForwardPassPure == []C9_Inv /\ [][C9_Step]_vars

\* a forward pass was repeated with the parameters and inputs of an earlier
\* one, on layers whose stored activations were those of another input
C9_Witness ==
  /\ repeated
  /\ pc = "backpropagate"
  /\ Len(trainingData) > 1
  /\ \E l \in 1..Len(layers) : before[l].activations # layers[l].activations

ShapeOk(layer) ==
  /\ Len(layer.weights) = layer.numNeurons
  /\ \A r \in 1..Len(layer.weights) : Len(layer.weights[r]) = layer.numInputs
  /\ Len(layer.biases) = layer.numNeurons
  /\ Len(layer.activations) \in {0, layer.numNeurons}
  /\ Len(layer.gradients) \in {0, layer.numNeurons}

\* C10: every layer keeps its shape: n rows of m weights, n biases, and n
\* activations and n gradients once populated (n neurons, m inputs), in
\* every state, also after a train call aborted and in networks whose
\* adjacent layer sizes disagree.
C10_LayerShapes == \A l \in 1..Len(layers) : ShapeOk(layers[l])

\* train threw in a network whose later layers hold gradients
C10_Witness ==
  /\ pc = "threw"
  /\ \E l \in 1..Len(layers) : layers[l].gradients # <<>>

\* C12: with epochs = 0 a call of train, whatever the training set and with
\* or without a callback, returns at once: every layer is as the constructor
\* left it (weights, biases, activations and gradients), no forward pass and
\* no backward pass has run and the callback was never invoked
C12_ZeroEpochs ==
  epochs = 0 =>
    /\ layers = layers0
    /\ Parameters(layers) = Parameters(layers0)
    /\ fwdLog = {}
    /\ passes = 0
    /\ cbLog = <<>>
    /\ pc \in {"idle", "returned"}

\* train was called twice with epochs = 0, samples and a callback, and returned
C12_Witness ==
  /\ epochs = 0
  /\ calls = 2
  /\ pc = "returned"
  /\ Len(trainingData) > 0
  /\ callback

\* the last step was a backward sweep: `before` holds the layers as the
\* forward pass of the sample found them, the layers hold the activations of
\* that forward pass, and the sample is the one before `sample`
JustSwept ==
  /\ passes > 0
  /\ \/ pc = "predict" /\ sample > 1
     \/ pc = "callback"

\* the gradient of neuron j of layer i (i > 1) in terms of the layers ls
\* above it: the output error for the last layer, the sum over the next
\* layer's weights and gradients for a hidden one
SweepGradient(ls, i, j, targets) ==
  LET d == Mul(layers[i].activations[j], Sub(Whole(1), layers[i].activations[j]))
  IN  IF i = Len(layers)
      THEN Mul(Sub(At(targets, j), At(predictions, j)), d)
      ELSE Mul(SumSeq([k \in 1..layers[i + 1].numNeurons |->
                         Mul(ls[i + 1].weights[k][j], layers[i + 1].gradients[k])]),
               d)

\* C13: after a backward sweep every layer i > 1 holds the gradient of this
\* sweep: for the last layer the output error, for a hidden layer the sum
\* over layer i + 1 of its weights as updated in this sweep times its
\* gradient of this sweep (the sweep went from the last layer to the first,
\* each layer updated before the one below it was visited); and every weight
\* and bias of layer i is its value before the sweep plus learningRate times
\* that gradient (times the activation of layer i - 1 in this sample's
\* forward pass, for a weight)
C13_SweepOrder ==
  JustSwept =>
    \A i \in 2..Len(layers) : \A j \in 1..layers[i].numNeurons :
      /\ layers[i].gradients[j] =
           SweepGradient(layers, i, j, trainingData[sample - 1].targets)
      /\ layers[i].biases[j] =
           Add(before[i].biases[j], Mul(learningRate, layers[i].gradients[j]))
      /\ \A k \in 1..layers[i - 1].numNeurons :
           layers[i].weights[j][k] =
             Add(before[i].weights[j][k],
                 Mul(Mul(learningRate, layers[i].gradients[j]),
                     layers[i - 1].activations[k]))

\* a sweep in which the gradient of a hidden layer differs from the one the
\* weights of the forward pass would have given
C13_Witness ==
  /\ JustSwept
  /\ \E i \in 2..(Len(layers) - 1) : \E j \in 1..layers[i].numNeurons :
       /\ layers[i].gradients[j] =
            SweepGradient(layers, i, j, trainingData[sample - 1].targets)
       /\ layers[i].gradients[j] #
            SweepGradient(before, i, j, trainingData[sample - 1].targets)

(* ------------------------------------------------------------------ *)
(* Claims about the predictor                                          *)
(* ------------------------------------------------------------------ *)
\* the last call was a predict that returned, in classification mode
Classified == lastCall.op = "predict" /\ ~lastCall.threw /\ ~regression

\* how many of the neighbours carry the label written text
Count(neighbors, text) ==
  Cardinality({p \in 1..Len(neighbors) : neighbors[p].label.text = text})

TopCount(neighbors) ==
  CHOOSE c \in 0..Len(neighbors) :
    /\ \A p \in 1..Len(neighbors) : Count(neighbors, neighbors[p].label.text) <= c
    /\ neighbors = <<>> \/ \E p \in 1..Len(neighbors) : Count(neighbors, neighbors[p].label.text) = c

\* the positions of the neighbours whose label has the highest count
Winners(neighbors) ==
  {p \in 1..Len(neighbors) : Count(neighbors, neighbors[p].label.text) = TopCount(neighbors)}

\* the label with the highest count met first among the neighbours
FirstEncountered(neighbors) ==
  LET p == CHOOSE x \in Winners(neighbors) : \A y \in Winners(neighbors) : x <= y
  IN  neighbors[p].label.text

\* the label with the highest count that comes first among the properties of
\* the tally: the least integer-like one if there is one, else the one met first
TallyFirst(neighbors) ==
  LET ints == {p \in Winners(neighbors) : neighbors[p].label.n >= 0}
  IN  IF ints = {} THEN FirstEncountered(neighbors)
      ELSE neighbors[CHOOSE x \in ints :
                       \A y \in ints : neighbors[x].label.n <= neighbors[y].label.n].label.text

C4_StringTieWitness ==
  /\ Classified
  /\ Cardinality({lastCall.neighbors[p].label.text : p \in Winners(lastCall.neighbors)}) > 1
  /\ \A p \in Winners(lastCall.neighbors) : lastCall.neighbors[p].label.n < 0
  /\ lastCall.returned.predictedLabel.text = FirstEncountered(lastCall.neighbors)

\* no distance of the result, nor of the points, is NaN
Numeric(args) ==
  \A p \in 1..Len(args.points) :
    ~IsNaN(Distance(args.distanceMetric, args.point, args.points[p]))

IsPrefix(s, t) == Len(s) <= Len(t) /\ SubSeq(t, 1, Len(s)) = s

C6_Inv == Len(trainingFeatures) = Len(trainingLabels)

C6_Step ==
  /\ IsPrefix(trainingFeatures, trainingFeatures')
  /\ IsPrefix(trainingLabels, trainingLabels')
  /\ IF lastCall'.op = "train"
     THEN /\ Len(trainingFeatures') = Len(trainingFeatures) + Len(lastCall'.features)
          /\ Len(trainingLabels') = Len(trainingLabels) + Len(lastCall'.features)
     ELSE UNCHANGED <<trainingFeatures, trainingLabels>>

\* C6: the stored features and the stored labels have the same length at
\* all times; every call keeps what is stored as a prefix; train appends as
\* many entries as the batch has features to both, whatever the length of
\* labels; predict and the with... calls leave both as they are
C6_ListsInStep == []C6_Inv /\ [][C6_Step]_vars

\* train has stored a batch whose labels were fewer than its features
C6_Witness ==
  /\ lastCall.op = "train"
  /\ Len(lastCall.labels) < Len(lastCall.features)
  /\ Len(trainingFeatures) > Len(lastCall.features)
  /\ trainingLabels[Len(trainingLabels)] = Undefined

\* C7: predict in classification mode with nothing stored does not throw,
\* with normalization on or off: it finds no neighbour and returns an
\* undefined label with maxVotes 0
C7_EmptyPredict ==
  (lastCall.op = "predict" /\ trainingFeatures = <<>> /\ ~regression)
    => /\ ~lastCall.threw
       /\ lastCall.neighbors = <<>>
       /\ lastCall.returned = [predictedLabel |-> Undefined, maxVotes |-> 0]

\* predict with normalization on and nothing stored: the query point
\* normalizes to NaN
C7_Witness ==
  /\ lastCall.op = "predict"
  /\ trainingFeatures = <<>>
  /\ normalization
  /\ ~regression
  /\ ~lastCall.threw
  /\ IsNaN(lastCall.point[1])
  /\ lastCall.returned.maxVotes = 0

\* the values of feature f over the batch
Column(batch, f) == {batch[p][f] : p \in 1..Len(batch)}

\* the batch, each value rescaled between the least and the greatest value
\* its feature has in the batch; NaN when the two are equal or one value of
\* the feature is NaN
Rescaled(batch) ==
  [p \in 1..Len(batch) |->
     [f \in 1..Len(batch[p]) |->
        LET lo == CHOOSE x \in Column(batch, f) : \A y \in Column(batch, f) : ~Less(y, x)
            hi == CHOOSE x \in Column(batch, f) : \A y \in Column(batch, f) : ~Less(x, y)
        IN  IF lo = hi \/ \E x \in Column(batch, f) : IsNaN(x) THEN NaN
            ELSE Div(Sub(batch[p][f], lo), Sub(hi, lo))]]

C8_Step ==
  IF lastCall'.op = "train"
  THEN trainingFeatures' =
         trainingFeatures \o (IF normalization THEN Rescaled(lastCall'.features)
                              ELSE lastCall'.features)
  ELSE trainingFeatures' = trainingFeatures

C8_Inv ==
  (lastCall.op = "predict" /\ ~lastCall.threw) =>
    /\ regression <=> "average" \in DOMAIN lastCall.returned
    /\ lastCall.point = IF normalization
                        THEN Rescaled(<<lastCall.feature>> \o trainingFeatures)[1]
                        ELSE lastCall.feature
    /\ \A p \in 1..Len(lastCall.neighbors) :
         lastCall.neighbors[p].distance =
           Distance(distanceMetric, lastCall.point, lastCall.neighbors[p].point)

\* C8: train and predict use the configuration as it is when they are
\* called; train stores the batch verbatim when normalization is off and
\* rescaled over the batch alone when it is on, and no call changes a point
\* already stored
C8_ConfigurationAtCallTime == []C8_Inv /\ [][C8_Step]_vars

\* a batch of two stored rescaled after a point stored verbatim
C8_Witness ==
  /\ lastCall.op = "train"
  /\ normalization
  /\ Len(lastCall.features) = 2
  /\ Len(trainingFeatures) = 3
  /\ trainingFeatures[1] = P3
  /\ trainingFeatures[3] = <<Whole(1), NaN>>

(* ------------------------------------------------------------------ *)
(* Claims about the loss                                               *)
(* ------------------------------------------------------------------ *)
\* the loss of the predicted values against the observed ones: each error
\* function applied with the two vectors in the roles its parameters name
Loss(errorFunction, predicted, observed) ==
  IF errorFunction = "crossEntropy"
  THEN [fn |-> "crossEntropy", loss |-> crossEntropy(observed, predicted)]
  ELSE [fn |-> "mse", loss |-> mse(predicted, observed)]

\* C11 as stated: for mse and for crossEntropy, #computeError returns the
\* loss in which the network's predictions are the predicted values and the
\* sample's targets are the true values
C11_LossRoles ==
  lossResult # <<>> =>
    lossResult[1] = Loss(lossArgs.errorFunction, lossArgs.predictions, lossArgs.targets)

\* the part of C11 that holds: with mse the predictions are the predicted
\* values and the targets the observed ones
C11_MseRoles ==
  (lossResult # <<>> /\ lossArgs.errorFunction = "mse") =>
    lossResult[1] = Loss("mse", lossArgs.predictions, lossArgs.targets)

\* a call with crossEntropy that returned the loss of the targets, taken as
\* predicted values, against the predictions, taken as true values
C11_Witness ==
  /\ lossResult # <<>>
  /\ lossArgs.errorFunction = "crossEntropy"
  /\ lossResult[1] = Loss("crossEntropy", lossArgs.targets, lossArgs.predictions)
  /\ lossResult[1] # Loss("crossEntropy", lossArgs.predictions, lossArgs.targets)

====
